---- MODULE Spec2Model ----
(***************************************************************************)
(* The token-managed request pipeline of the Fitbit gateway:               *)
(* FitbitClient (loadToken, saveToken, saveTokenToSecretManager,           *)
(* refreshAccessToken, request) and the outer error handler of the API     *)
(* server.  Several request() invocations run concurrently on the one      *)
(* singleton client and interleave at their await points.                  *)
(*                                                                         *)
(* A token is a natural number naming the source that issued it: 0 is an   *)
(* absent token (null / undefined / ""), EnvTok the FITBIT_TOKEN blob,     *)
(* FileTok the local token file, and every token-exchange response gets a  *)
(* fresh number.  An HTTP response is delivered whole (status and body);   *)
(* a transport failure is a rejection of fetch().                          *)
(***************************************************************************)
EXTENDS Integers, Sequences, FiniteSets, TLC

\* ------------------------------------------------------------------ bounds
MaxRequests == 2
MaxBodyLen == 201
MaxQueryLen == 3
MaxWindow == 2
MaxEntries == 3
MaxStageMinutes == 12

\* --------------------------------------------------------------- constants
ExcerptLimit == 200
RateLimitStatus == 429
UnauthorizedStatus == 401
TimeoutStatus == 504
UnavailableStatus == 503
InternalErrorStatus == 500
MinDays == 1
Week == 7

NoTok == 0
EnvTok == 1
FileTok == 2
FirstExchangeTok == 3

\* the request() invocations, numbered in the order they are made
Callers == 1..MaxRequests

\* what loadToken() can find in FITBIT_TOKEN and in TOKEN_FILE
EnvKinds == {"absent", "malformed", "incomplete", "complete"}
FileKinds == {"absent", "malformed", "empty", "accessonly", "refreshonly", "complete"}

Statuses == {200, 401, 429, 500}
TransportFailures == {"TimeoutError", "TypeError"}
BodyLens == {ExcerptLimit, MaxBodyLen}
\* the responses a GET can get: a 2xx body parses as JSON or does not, the
\* body of any other response is only read as text
GetResponses ==
  {r \in [status : Statuses, len : BodyLens, json : BOOLEAN] :
     IF r.status >= 200 /\ r.status <= 299 THEN r.len = ExcerptLimit ELSE ~r.json}
\* the answers a token exchange can get: a 2xx with a credential, a 2xx whose
\* body does not parse, another status, or a rejection of fetch()
ExchangeOutcomes == {"ok", "okBadJson", "non2xx", "rejected"}

VARIABLES
  envTokenSet,   \* process.env.FITBIT_TOKEN is truthy
  loadedFrom,    \* the source loadToken() took the credential from
  clientId,      \* process.env.CLIENT_ID is set
  clientSecret,  \* process.env.CLIENT_SECRET is set
  projectId,     \* GOOGLE_CLOUD_PROJECT or GCP_PROJECT is set
  accessToken,   \* FitbitClient.accessToken
  refreshToken,  \* FitbitClient.refreshToken
  nextTok,       \* the token the provider issues at the next exchange
  secretStore,   \* latest secret version written by this process (0: none)
  fileStore,     \* credential written to TOKEN_FILE by this process (0: none)
  pc,            \* position of each request() invocation
  sent,          \* access tokens of the invocation's GETs, until it settles
  posted,        \* refresh tokens of the invocation's exchanges, until it settles
  gets,          \* number of provider GETs the invocation issued
  posts,         \* number of token exchanges the invocation issued
  resp,          \* outcomes of the GETs of the invocation
  text,          \* the body read by response.text(), if any
  exchanged,     \* outcome of the invocation's token exchange, "none" if none
  refreshed,     \* result of refreshAccessToken(): "none", "ok", "fail"
  pending,       \* tokenData held by a saveTokenToSecretManager in flight
  saved,         \* how the invocation's saveToken() persisted, "none" if not run
  result,        \* what request() returned or threw
  reply,         \* what the server answered at the outer surface
  started,       \* number of request() invocations so far
  route,         \* the route handler under study, "none" in the pipeline model
  req,           \* what the consumer sent: the query parameters
  fitbit,        \* what the provider holds or answers for the handler's fetches
  local,         \* the local variables of the handler
  res,           \* the response the handler sent, if any
  step           \* the position of the handler

config == <<envTokenSet, loadedFrom, clientId, clientSecret, projectId>>
cred == <<accessToken, refreshToken>>
stores == <<secretStore, fileStore>>
perCall == <<pc, sent, posted, gets, posts, resp, text, exchanged, refreshed, pending,
            saved, result, reply>>
client == <<config, cred, nextTok, stores, perCall, started>>
handler == <<route, req, fitbit, local, res, step>>
vars == <<client, handler>>

\* ----------------------------------------------------------- pure helpers
Min(a, b) == IF a < b THEN a ELSE b

\* a body of n characters
Body(n) == [i \in 1..n |-> i % 7]

Slice_untruncated(s, n) == s

\* String.prototype.slice(0, n)
Slice(s, n) == SubSeq(s, 1, Min(Len(s), n))

NoResult == [kind |-> "none", name |-> "", statusCode |-> 0, tag |-> "", excerpt |-> <<>>]
Payload == [kind |-> "payload", name |-> "", statusCode |-> 0, tag |-> "", excerpt |-> <<>>]

\* new FitbitAPIError(statusCode, message)
FitbitAPIError(statusCode, tag, excerpt) ==
  [kind |-> "error", name |-> "FitbitAPIError", statusCode |-> statusCode,
   tag |-> tag, excerpt |-> excerpt]

\* new FitbitRateLimitError(message): super(429, message)
FitbitRateLimitError ==
  [kind |-> "error", name |-> "FitbitRateLimitError", statusCode |-> RateLimitStatus,
   tag |-> "rate limit exceeded", excerpt |-> <<>>]

\* an error that is not a FitbitAPIError (response.json() rejecting)
RawError(name) ==
  [kind |-> "error", name |-> name, statusCode |-> 0, tag |-> "raw", excerpt |-> <<>>]

\* err instanceof cls, FitbitRateLimitError extends FitbitAPIError
InstanceOf(err, cls) ==
  /\ err.kind = "error"
  /\ \/ err.name = cls
     \/ cls = "FitbitAPIError" /\ err.name = "FitbitRateLimitError"

\* response.ok
Ok(status) == status >= 200 /\ status <= 299

\* loadToken(): environment blob first, local file second
LoadToken(env, file) ==
  IF env = "complete"
  THEN [access |-> EnvTok, refresh |-> EnvTok, from |-> "env"]
  ELSE CASE file = "complete"    -> [access |-> FileTok, refresh |-> FileTok, from |-> "file"]
         [] file = "accessonly"  -> [access |-> FileTok, refresh |-> NoTok, from |-> "file"]
         [] file = "refreshonly" -> [access |-> NoTok, refresh |-> FileTok, from |-> "file"]
         [] file = "empty"       -> [access |-> NoTok, refresh |-> NoTok, from |-> "file"]
         [] OTHER                -> [access |-> NoTok, refresh |-> NoTok, from |-> "none"]

NoAccessToken_unchecked(tok) == FALSE

NoAccessToken_inverted(tok) == tok # NoTok

\* if (!this.accessToken)
NoAccessToken(tok) == tok = NoTok

MissingRefreshInputs_noSecret(rt, cid, cs) == rt = NoTok \/ ~cid

\* if (!this.refreshToken || !this.clientId || !this.clientSecret)
MissingRefreshInputs(rt, cid, cs) == rt = NoTok \/ ~cid \/ ~cs

NeedsRefresh_recursive(attempt, status) == status = UnauthorizedStatus

NeedsRefresh_on429(attempt, status) ==
  attempt = 1 /\ status \in {UnauthorizedStatus, RateLimitStatus}

\* if (response.status === 401), reached by the first response only
NeedsRefresh(attempt, status) == attempt = 1 /\ status = UnauthorizedStatus

ExchangeSucceeds_ignoresStatus(out) == out \in {"ok", "non2xx"}

\* refreshAccessToken(): response.ok and a body that parses; anything else,
\* a rejection of fetch() included, is a failure
ExchangeSucceeds(out) == out = "ok"

AfterExchange_clearsOnFailure(out, cur, new) ==
  IF ExchangeSucceeds(out) THEN new ELSE <<NoTok, cur[2]>>

AfterExchange_accessOnly(out, cur, new) ==
  IF ExchangeSucceeds(out) THEN <<new[1], cur[2]>> ELSE cur

AfterExchange_firstWriterWins(out, cur, new) ==
  IF ExchangeSucceeds(out) /\ cur[1] < FirstExchangeTok THEN new ELSE cur

\* the stored <<access, refresh>> pair after the exchange answered:
\* saveToken() assigns both on success, nothing is assigned otherwise
AfterExchange(out, cur, new) == IF ExchangeSucceeds(out) THEN new ELSE cur

\* how saveToken() can end: Secret Manager without a project id, a secret
\* version added or refused, TOKEN_FILE written or not
SaveOutcomes == {"noProject", "secret", "secretFailed", "file", "fileFailed"}
PersistFailures == {"noProject", "secretFailed", "fileFailed"}

\* the persistence channel saveToken() takes:
\* if (process.env.FITBIT_TOKEN) ... else ...
Channel(envSet, from) == IF envSet THEN "secret" ELSE "file"

\* the outcomes of the synchronous part of saveToken(): the project id check
\* of saveTokenToSecretManager(), or the write of TOKEN_FILE
SyncSaveOutcomes(channel) ==
  IF channel = "secret" THEN {"noProject"} ELSE {"file", "fileFailed"}

\* the outcomes of addSecretVersion()
AsyncSaveOutcomes == {"secret", "secretFailed"}

SaveTokenThrows_uncaught(outcome) == outcome \in PersistFailures

\* saveToken() and saveTokenToSecretManager() catch and log every failure
SaveTokenThrows(outcome) == FALSE

TransportError_always503(name) == FitbitAPIError(UnavailableStatus, "request failed", <<>>)

\* the catch around makeRequest()
TransportError(name) ==
  IF name = "TimeoutError"
  THEN FitbitAPIError(TimeoutStatus, "timed out", <<>>)
  ELSE FitbitAPIError(UnavailableStatus, "request failed", <<>>)

\* the final response is one whose body request() reads with response.text()
ReadsText(status) == status # RateLimitStatus /\ ~Ok(status)

\* the classification of the final response
Classify(status, body, json) ==
  IF status = RateLimitStatus THEN FitbitRateLimitError
  ELSE IF ~Ok(status) THEN FitbitAPIError(status, "body", Slice(body, ExcerptLimit))
  ELSE IF json THEN Payload
  ELSE RawError("SyntaxError")

ErrorHandler_apiErrorFirst(err) ==
  IF InstanceOf(err, "FitbitAPIError")
  THEN [status |-> err.statusCode, error |-> "fitbit_api_error"]
  ELSE IF InstanceOf(err, "FitbitRateLimitError")
  THEN [status |-> RateLimitStatus, error |-> "rate_limit_exceeded"]
  ELSE [status |-> InternalErrorStatus, error |-> "internal_error"]

ErrorHandler_internalOnly(err) ==
  [status |-> InternalErrorStatus, error |-> "internal_error"]

\* the error handler of the server
ErrorHandler(err) ==
  IF InstanceOf(err, "FitbitRateLimitError")
  THEN [status |-> RateLimitStatus, error |-> "rate_limit_exceeded"]
  ELSE IF InstanceOf(err, "FitbitAPIError")
  THEN [status |-> err.statusCode, error |-> "fitbit_api_error"]
  ELSE [status |-> InternalErrorStatus, error |-> "internal_error"]

NoReply == [status |-> 0, error |-> ""]
OkReply == [status |-> 200, error |-> ""]

\* the route handler's continuation runs in the same turn as the settling of
\* request(): res.json(...) on a payload, the error handler on an error
Answer(r) == IF r.kind = "error" THEN ErrorHandler(r) ELSE OkReply

\* ------------------------------------------------------------------- Init
\* no route handler is modelled step by step: the consumers of request() are
\* the invocations themselves
NoHandler ==
  /\ route = "none"
  /\ req = <<>>
  /\ fitbit = <<>>
  /\ local = <<>>
  /\ res = <<>>
  /\ step = "none"

\* the client after its construction: loadToken() found env in FITBIT_TOKEN
\* and file in TOKEN_FILE, and no request() was made yet
Constructed(env, file, cid, cs, pid) ==
  /\ envTokenSet = (env # "absent")
  /\ loadedFrom = LoadToken(env, file).from
  /\ accessToken = LoadToken(env, file).access
  /\ refreshToken = LoadToken(env, file).refresh
  /\ clientId = cid
  /\ clientSecret = cs
  /\ projectId = pid
  /\ nextTok = FirstExchangeTok
  /\ secretStore = NoTok
  /\ fileStore = NoTok
  /\ pc = [p \in Callers |-> "idle"]
  /\ sent = [p \in Callers |-> <<>>]
  /\ posted = [p \in Callers |-> <<>>]
  /\ gets = [p \in Callers |-> 0]
  /\ posts = [p \in Callers |-> 0]
  /\ resp = [p \in Callers |-> <<>>]
  /\ text = [p \in Callers |-> <<>>]
  /\ exchanged = [p \in Callers |-> "none"]
  /\ refreshed = [p \in Callers |-> "none"]
  /\ pending = [p \in Callers |-> NoTok]
  /\ saved = [p \in Callers |-> "none"]
  /\ result = [p \in Callers |-> NoResult]
  /\ reply = [p \in Callers |-> NoReply]
  /\ started = 0

Init ==
  /\ \E env \in EnvKinds, file \in FileKinds, cid \in BOOLEAN, cs \in BOOLEAN,
        pid \in BOOLEAN :
       Constructed(env, file, cid, cs, pid)
  /\ NoHandler

\* ---------------------------------------------------------------- actions
\* request() settles with r and, in the same turn, the server answers; the
\* HTTP exchanges of the invocation are over
Settle(p, r) ==
  /\ result' = [result EXCEPT ![p] = r]
  /\ reply' = [reply EXCEPT ![p] = Answer(r)]
  /\ sent' = [sent EXCEPT ![p] = <<>>]
  /\ posted' = [posted EXCEPT ![p] = <<>>]
  /\ pc' = [pc EXCEPT ![p] = "done"]

\* the event loop is single-threaded: the turn in which an invocation settles
\* runs the route's continuation to its end before any other callback runs
TurnOver == \A q \in Callers : pc[q] # "done"

MakeRequest_capturedToken(p, tok) ==
  /\ sent' = [sent EXCEPT ![p] = Append(@, IF @ = <<>> THEN tok ELSE @[1])]
  /\ gets' = [gets EXCEPT ![p] = @ + 1]
  /\ pc' = [pc EXCEPT ![p] = "fetch"]

\* makeRequest(): a GET carrying the access token tok, the one held when it
\* is called
MakeRequest(p, tok) ==
  /\ sent' = [sent EXCEPT ![p] = Append(@, tok)]
  /\ gets' = [gets EXCEPT ![p] = @ + 1]
  /\ pc' = [pc EXCEPT ![p] = "fetch"]

\* refreshAccessToken() returned true: the second makeRequest(), in the turn
\* in which saveToken() finished
Retry(p, tok) ==
  /\ refreshed' = [refreshed EXCEPT ![p] = "ok"]
  /\ MakeRequest(p, tok)

\* request(): entry, the access-token check and the first makeRequest()
Request(p) ==
  /\ TurnOver
  /\ pc[p] = "idle"
  /\ p = started + 1
  /\ started' = started + 1
  /\ IF NoAccessToken(accessToken)
     THEN /\ Settle(p, FitbitAPIError(UnauthorizedStatus, "no access token", <<>>))
          /\ UNCHANGED gets
     ELSE /\ MakeRequest(p, accessToken)
          /\ UNCHANGED <<posted, result, reply>>
  /\ UNCHANGED <<config, cred, nextTok, stores, posts, resp, text, exchanged,
                 refreshed, pending, saved>>
  /\ UNCHANGED handler

\* makeRequest() rejects: the catch wraps the failure
FetchFails(p) ==
  /\ TurnOver
  /\ pc[p] = "fetch"
  /\ \E f \in TransportFailures :
       /\ resp' = [resp EXCEPT ![p] = Append(@, [status |-> 0, failure |-> f])]
       /\ Settle(p, TransportError(f))
  /\ UNCHANGED <<config, cred, nextTok, stores, gets, posts, text, exchanged,
                 refreshed, pending, saved, started>>
  /\ UNCHANGED handler

\* makeRequest() resolves with a response: 401 handling (with the
\* synchronous head of refreshAccessToken) or the final classification
Response(p) ==
  /\ TurnOver
  /\ pc[p] = "fetch"
  /\ \E r \in GetResponses :
       /\ resp' = [resp EXCEPT ![p] = Append(@, [status |-> r.status, failure |-> "none"])]
       /\ IF NeedsRefresh(gets[p], r.status)
          THEN IF MissingRefreshInputs(refreshToken, clientId, clientSecret)
               THEN /\ refreshed' = [refreshed EXCEPT ![p] = "fail"]
                    /\ Settle(p, FitbitAPIError(UnauthorizedStatus, "token expired", <<>>))
                    /\ UNCHANGED <<posts, text>>
               ELSE /\ posted' = [posted EXCEPT ![p] = Append(@, refreshToken)]
                    /\ posts' = [posts EXCEPT ![p] = @ + 1]
                    /\ pc' = [pc EXCEPT ![p] = "exchange"]
                    /\ UNCHANGED <<sent, text, refreshed, result, reply>>
          ELSE /\ text' = [text EXCEPT ![p] =
                     IF ReadsText(r.status) THEN Body(r.len) ELSE <<>>]
               /\ Settle(p, Classify(r.status, Body(r.len), r.json))
               /\ UNCHANGED <<refreshed, posts>>
  /\ UNCHANGED <<config, cred, nextTok, stores, gets, exchanged, pending, saved,
                 started>>
  /\ UNCHANGED handler

\* saveToken() is over with outcome o: refreshAccessToken() returns true and
\* the retry follows; were the failure thrown, the catch of
\* refreshAccessToken() would return false
AfterSave(p, o, tok) ==
  /\ saved' = [saved EXCEPT ![p] = o]
  /\ IF SaveTokenThrows(o)
     THEN /\ refreshed' = [refreshed EXCEPT ![p] = "fail"]
          /\ Settle(p, FitbitAPIError(UnauthorizedStatus, "token expired", <<>>))
          /\ UNCHANGED gets
     ELSE /\ Retry(p, tok)
          /\ UNCHANGED <<posted, result, reply>>

\* the token exchange answers.  On success saveToken() assigns both tokens and
\* persists: to Secret Manager when FITBIT_TOKEN is set (awaited when a project
\* id is known), to TOKEN_FILE otherwise (synchronously), and the retry
\* follows.  Anything else is a failed refresh.
ExchangeResponse(p) ==
  /\ TurnOver
  /\ pc[p] = "exchange"
  /\ \E out \in ExchangeOutcomes :
       /\ exchanged' = [exchanged EXCEPT ![p] = out]
       /\ accessToken' = AfterExchange(out, cred, <<nextTok, nextTok>>)[1]
       /\ refreshToken' = AfterExchange(out, cred, <<nextTok, nextTok>>)[2]
       /\ IF ExchangeSucceeds(out)
          THEN /\ nextTok' = nextTok + 1
               /\ IF Channel(envTokenSet, loadedFrom) = "secret" /\ projectId
                  THEN /\ pending' = [pending EXCEPT ![p] = nextTok]
                       /\ pc' = [pc EXCEPT ![p] = "persist"]
                       /\ UNCHANGED <<stores, sent, posted, gets, refreshed, saved,
                                      result, reply>>
                  ELSE /\ \E o \in SyncSaveOutcomes(Channel(envTokenSet, loadedFrom)) :
                            /\ fileStore' = IF o = "file" THEN nextTok ELSE fileStore
                            /\ AfterSave(p, o, accessToken')
                       /\ UNCHANGED <<secretStore, pending>>
          ELSE /\ refreshed' = [refreshed EXCEPT ![p] = "fail"]
               /\ Settle(p, FitbitAPIError(UnauthorizedStatus, "token expired", <<>>))
               /\ UNCHANGED <<nextTok, stores, pending, gets, saved>>
  /\ UNCHANGED <<config, posts, resp, text, started>>
  /\ UNCHANGED handler

\* addSecretVersion() settles, a failure being caught and logged; saveToken()
\* and refreshAccessToken() return and the retry follows
PersistDone(p) ==
  /\ TurnOver
  /\ pc[p] = "persist"
  /\ \E o \in AsyncSaveOutcomes :
       /\ secretStore' = IF o = "secret" THEN pending[p] ELSE secretStore
       /\ AfterSave(p, o, accessToken)
  /\ pending' = [pending EXCEPT ![p] = NoTok]
  /\ UNCHANGED <<config, cred, nextTok, fileStore, posts, resp, text, exchanged,
                 started>>
  /\ UNCHANGED handler

\* the turn ends: the consumer has its answer and the invocation is gone
Return(p) ==
  /\ pc[p] = "done"
  /\ pc' = [pc EXCEPT ![p] = "returned"]
  /\ gets' = [gets EXCEPT ![p] = 0]
  /\ posts' = [posts EXCEPT ![p] = 0]
  /\ resp' = [resp EXCEPT ![p] = <<>>]
  /\ text' = [text EXCEPT ![p] = <<>>]
  /\ exchanged' = [exchanged EXCEPT ![p] = "none"]
  /\ refreshed' = [refreshed EXCEPT ![p] = "none"]
  /\ saved' = [saved EXCEPT ![p] = "none"]
  /\ result' = [result EXCEPT ![p] = NoResult]
  /\ reply' = [reply EXCEPT ![p] = NoReply]
  /\ UNCHANGED <<config, cred, nextTok, stores, sent, posted, pending, started>>
  /\ UNCHANGED handler

Next ==
  \/ \E p \in Callers : Request(p)
  \/ \E p \in Callers : FetchFails(p)
  \/ \E p \in Callers : Response(p)
  \/ \E p \in Callers : ExchangeResponse(p)
  \/ \E p \in Callers : PersistDone(p)
  \/ \E p \in Callers : Return(p)

Spec == Init /\ [][Next]_vars

\* the callbacks of invocation p once it is started
Callback(p) ==
  FetchFails(p) \/ Response(p) \/ ExchangeResponse(p) \/ PersistDone(p) \/ Return(p)

\* every outbound call eventually answers or times out, and a turn of the
\* event loop ends: the pending callback of an invocation eventually runs
Fairness == \A p \in Callers : WF_vars(Callback(p))

LiveSpec == Spec /\ Fairness

\* ------------------------------------------------- the history day count
\* the characters a days parameter is made of here: three digits, the signs,
\* the decimal point, white space and a letter
Chars == {"0", "1", "9", "-", "+", ".", " ", "a"}
Digits == {"0", "1", "2", "3", "4", "5", "6", "7", "8", "9"}

\* the values of req.query.days as strings, absent apart
Queries == UNION {[1..n -> Chars] : n \in 0..MaxQueryLen}

HistoryRoutes ==
  {"sleep/history", "sleep/stages-history", "recovery/history",
   "heart-rate/resting/history", "activity/history"}

\* the right operand of || in the handler of the route
DefaultDays(r) == IF r \in {"sleep/stages-history", "activity/history"} THEN 14 ELSE 30

\* the second argument of Math.min in the handler of the route
MaxDays(r) == IF r = "sleep/stages-history" THEN 30 ELSE 90

\* the end of the range asked of the provider, in days before today
EndDaysAgo(r) == IF r = "sleep/stages-history" THEN 0 ELSE 1

Max(a, b) == IF a > b THEN a ELSE b

DigitVal(c) ==
  CASE c = "0" -> 0 [] c = "1" -> 1 [] c = "2" -> 2 [] c = "3" -> 3 [] c = "4" -> 4
    [] c = "5" -> 5 [] c = "6" -> 6 [] c = "7" -> 7 [] c = "8" -> 8 [] c = "9" -> 9

\* parseInt step 1: leading white space is skipped
RECURSIVE TrimStart(_)
TrimStart(s) == IF s # <<>> /\ Head(s) = " " THEN TrimStart(Tail(s)) ELSE s

\* parseInt: the longest prefix made of digits
RECURSIVE DigitPrefix(_)
DigitPrefix(s) ==
  IF s # <<>> /\ Head(s) \in Digits THEN <<Head(s)>> \o DigitPrefix(Tail(s)) ELSE <<>>

\* the number a sequence of decimal digits denotes
RECURSIVE Decimal(_)
Decimal(z) ==
  IF z = <<>> THEN 0
  ELSE 10 * Decimal(SubSeq(z, 1, Len(z) - 1)) + DigitVal(z[Len(z)])

NaN == [nan |-> TRUE, val |-> 0]

\* parseInt(string) without a radix: white space, an optional sign, then the
\* longest run of decimal digits; NaN when there is no digit there
ParseInt(s) ==
  LET t == TrimStart(s)
      signed == t # <<>> /\ Head(t) \in {"+", "-"}
      z == DigitPrefix(IF signed THEN Tail(t) ELSE t)
  IN IF z = <<>> THEN NaN
     ELSE [nan |-> FALSE, val |-> IF signed /\ Head(t) = "-" THEN -Decimal(z) ELSE Decimal(z)]

\* parseInt(req.query.days as string): an absent parameter is undefined,
\* which parseInt reads as the string "undefined"
ParseDays(q) == IF q.has THEN ParseInt(q.days) ELSE NaN

\* n || d: NaN and 0 are falsy
OrDefault(n, d) == IF n.nan \/ n.val = 0 THEN d ELSE n.val

Clamp_noFloor(n, lo, hi) == Min(n, hi)

\* Math.min(Math.max(n, lo), hi)
Clamp(n, lo, hi) == Min(Max(n, lo), hi)

\* const days = Math.min(Math.max(parseInt(req.query.days) || dflt, 1), hi)
Days(r, q) == Clamp(OrDefault(ParseDays(q), DefaultDays(r)), MinDays, MaxDays(r))

\* a history request arrives: any route, the parameter absent or any string
DaysInit ==
  /\ Constructed("complete", "absent", TRUE, TRUE, TRUE)
  /\ route \in HistoryRoutes
  /\ req \in {[has |-> FALSE, days |-> <<>>]} \cup [has : {TRUE}, days : Queries]
  /\ fitbit = <<>>
  /\ local = <<>>
  /\ res = <<>>
  /\ step = "received"

\* the handler up to its first await: days, startDate and endDate (as days
\* before today), and the range fetch is issued
HistoryStart ==
  /\ step = "received"
  /\ local' = [days |-> Days(route, req),
               startDaysAgo |-> Days(route, req),
               endDaysAgo |-> EndDaysAgo(route)]
  /\ step' = "fetching"
  /\ UNCHANGED <<client, route, req, fitbit, res>>

DaysNext == HistoryStart

DaysSpec == DaysInit /\ [][DaysNext]_vars

\* ------------------------------------------------- the composite reports
\* a JSON number, or null / undefined, or what a division by zero leaves:
\* Num(n), Null, Infinite, NotANumber
Null == [kind |-> "null", val |-> 0]
Num(n) == [kind |-> "num", val |-> n]
Infinite == [kind |-> "inf", val |-> 0]
NotANumber == [kind |-> "nan", val |-> 0]

\* a section of a report that stayed null
NullSection == [kind |-> "null"]

\* the value of a property the object does not have
Undefined == [kind |-> "undefined", val |-> 0]

\* entry[key] of a payload object: undefined when the provider omitted it
Get(entry, key) == IF key \in DOMAIN entry THEN entry[key] ELSE Undefined

Truthy_zeroKept(j) == j.kind = "num"

\* the truthiness of a number or undefined: 0, null and undefined are falsy
Truthy(j) == j.kind = "num" /\ j.val # 0

\* x || null
OrNull(j) == IF Truthy(j) THEN j ELSE Null

\* x || 0
OrZero(j) == IF Truthy(j) THEN j ELSE Num(0)

\* x ?? null: only null and undefined are replaced, 0 is kept
Nullish(j) == IF j.kind \in {"null", "undefined"} THEN Null ELSE j

\* JSON.stringify() in res.json(): a number that is not finite becomes null
Json(j) == IF j.kind \in {"inf", "nan"} THEN Null ELSE j

\* Math.round(a / b) for integers a and b, b # 0: halves go up
RoundDiv(a, b) ==
  IF b > 0 THEN (2 * a + b) \div (2 * b) ELSE (-(2 * a) - b) \div (-(2 * b))

RECURSIVE Sum(_)
Sum(s) == IF s = <<>> THEN 0 ELSE Head(s) + Sum(Tail(s))

\* the day the request arrives, and the days the provider has data for
Today == MaxWindow + Week
DataDates == (Today - MaxWindow)..Today

\* what the provider holds for a date: an HRV entry or none, a sleep log
\* (main sleep or not) or none
NoEntry == [logged |-> FALSE, dailyRmssd |-> Null]
Entry(j) == [logged |-> TRUE, dailyRmssd |-> j]
HrvData == {NoEntry} \cup {Entry(j) : j \in {Null, Num(0), Num(50), Num(60), Num(-50)}}
NoLog ==
  [logged |-> FALSE, isMainSleep |-> FALSE, minutesAsleep |-> Null, efficiency |-> Undefined]
Log(main, j) ==
  [logged |-> TRUE, isMainSleep |-> main, minutesAsleep |-> j, efficiency |-> Num(90)]
SleepData ==
  {NoLog, Log(TRUE, Num(420)), Log(TRUE, Num(0)), Log(FALSE, Num(90)),
   [Log(TRUE, Num(420)) EXCEPT !.efficiency = Undefined]}

\* the stage summary of a usual night
UsualLevels ==
  [summary |-> [deep |-> Num(90), light |-> Num(270), rem |-> Num(90), wake |-> Num(30)]]

\* a provider whose data is the usual one
UsualHrv == [d \in DataDates |-> IF d = Today THEN Entry(Num(60)) ELSE Entry(Num(50))]
UsualSleep == [d \in DataDates |-> IF d = Today THEN Log(TRUE, Num(420)) ELSE Log(TRUE, Num(450))]

\* getHrvRange(a, b), getHrvByDate(d) = getHrvRange(d, d): the entries the
\* provider holds for the dates a..b
RECURSIVE HrvRange(_, _, _)
HrvRange(data, a, b) ==
  IF a > b THEN <<>>
  ELSE (IF a \in DOMAIN data /\ data[a].logged
        THEN <<[dateTime |-> a, dailyRmssd |-> data[a].dailyRmssd]>>
        ELSE <<>>) \o HrvRange(data, a + 1, b)

\* getSleepRange(a, b), getSleepByDate(d) = getSleepRange(d, d)
RECURSIVE SleepRange(_, _, _)
SleepRange(data, a, b) ==
  IF a > b THEN <<>>
  ELSE (IF a \in DOMAIN data /\ data[a].logged
        THEN <<[dateOfSleep |-> a, isMainSleep |-> data[a].isMainSleep,
                minutesAsleep |-> data[a].minutesAsleep,
                efficiency |-> data[a].efficiency, levels |-> UsualLevels]>>
        ELSE <<>>) \o SleepRange(data, a + 1, b)

\* the fetches of each composite route
Fetches(r) ==
  CASE r = "morning-report" ->
         {"sleepRange", "hrvRange", "sleepByDate", "activityByDate", "azmByDate",
          "hrvByDate", "heartRateByDate"}
    [] r = "grafana-snapshot" ->
         {"sleepByDate", "hrvByDate", "hrvRange", "spo2ByDate", "breathingRateByDate",
          "temperatureByDate", "heartRateByDate"}
    [] r = "recovery/today" ->
         {"hrvByDate", "spo2ByDate", "breathingRateByDate", "temperatureByDate"}

CompositeRoutes == {"morning-report", "grafana-snapshot", "recovery/today"}

\* the try blocks of each composite route
Blocks(r) ==
  CASE r = "morning-report" -> 7
    [] r = "grafana-snapshot" -> 6
    [] r = "recovery/today" -> 4

\* the provider: its data, and the fetches that fail during this request
Provider(down, hrv, sleep) ==
  [down |-> down, hrv |-> hrv, sleep |-> sleep,
   steps |-> Num(8000), azm |-> Num(30), spo2 |-> Num(96), breathingRate |-> Num(14),
   tempSkin |-> Num(-1), restingHeartRate |-> Num(58)]

\* the fetch throws: the catch of its try block swallows the error
Throws(f, fetch) == fetch \in f.down

\* summary.<stage>?.minutes of an entry's levels.summary
StageMinutes(summary, stage) == Get(summary, stage)

StagePercent_truncated(stage, deep, light, rem) ==
  IF Truthy(stage) /\ OrZero(deep).val + OrZero(light).val + OrZero(rem).val # 0
  THEN Num((stage.val * 1000) \div (OrZero(deep).val + OrZero(light).val + OrZero(rem).val))
  ELSE Null

\* stage && totalSleep ? Math.round((stage / totalSleep) * 1000) / 10 : null
\* with totalSleep = (deep || 0) + (light || 0) + (rem || 0), in tenths of a
\* percent
StagePercent(stage, deep, light, rem) ==
  IF Truthy(stage) /\ OrZero(deep).val + OrZero(light).val + OrZero(rem).val # 0
  THEN Num(RoundDiv(stage.val * 1000, OrZero(deep).val + OrZero(light).val + OrZero(rem).val))
  ELSE Null

\* stages of parseSleepRecord(): null without levels.summary
SleepStages(entry) ==
  IF "levels" \notin DOMAIN entry \/ "summary" \notin DOMAIN entry.levels THEN NullSection
  ELSE LET summary == entry.levels.summary
           deep == Nullish(StageMinutes(summary, "deep"))
           light == Nullish(StageMinutes(summary, "light"))
           rem == Nullish(StageMinutes(summary, "rem"))
           wake == Nullish(StageMinutes(summary, "wake"))
       IN [kind |-> "stages",
           deep |-> deep,
           deep_percent |-> StagePercent(deep, deep, light, rem),
           light |-> light,
           light_percent |-> StagePercent(light, deep, light, rem),
           rem |-> rem,
           rem_percent |-> StagePercent(rem, deep, light, rem),
           wake |-> wake]

\* record.isMainSleep as a condition: an absent flag is falsy
IsMainSleep(entry) == "isMainSleep" \in DOMAIN entry /\ entry.isMainSleep

\* parseSleepRecord(): the duration is in hundredths of an hour; an absent
\* dateOfSleep gives the empty string, an absent flag gives true
ParseSleepRecord(entry) ==
  [kind |-> "sleep",
   date |-> IF "dateOfSleep" \in DOMAIN entry THEN entry.dateOfSleep ELSE <<>>,
   start_time |-> OrNull(Get(entry, "startTime")),
   end_time |-> OrNull(Get(entry, "endTime")),
   duration_hours |-> IF Truthy(Get(entry, "minutesAsleep"))
                      THEN Num(RoundDiv(entry.minutesAsleep.val * 100, 60))
                      ELSE Null,
   time_in_bed_minutes |-> OrNull(Get(entry, "timeInBed")),
   minutes_asleep |-> OrNull(Get(entry, "minutesAsleep")),
   minutes_awake |-> OrNull(Get(entry, "minutesAwake")),
   efficiency |-> OrNull(Get(entry, "efficiency")),
   stages |-> SleepStages(entry),
   is_main_sleep |-> IF "isMainSleep" \in DOMAIN entry THEN entry.isMainSleep ELSE TRUE]

\* the first main sleep of the day's logs, parsed, or null
MainSleep(logs) ==
  IF SelectSeq(logs, IsMainSleep) = <<>> THEN NullSection
  ELSE ParseSleepRecord(Head(SelectSeq(logs, IsMainSleep)))

HasRmssd(e) == Truthy(e.dailyRmssd)

\* .filter((e) => e.value?.dailyRmssd)
HrvWindow(history) == SelectSeq(history, HasRmssd)

\* .map((e) => e.value.dailyRmssd)
Rmssds(window) == [i \in 1..Len(window) |-> window[i].dailyRmssd.val]

\* Math.round(((cur - avg) / avg) * 1000) / 10 with avg = sum / length, in
\* tenths of a percent; guarded by hrvValues.length && cur
VsBaseline(cur, values) ==
  IF Len(values) # 0 /\ Truthy(cur)
  THEN IF Sum(values) = 0 THEN Infinite
       ELSE Num(RoundDiv(1000 * (cur.val * Len(values) - Sum(values)), Sum(values)))
  ELSE Null

NotFetched == [kind |-> "null", items |-> <<>>]
Fetched(items) == [kind |-> "payload", items |-> items]

\* the main sleeps of the history of another date than the last night's
OtherNights(history, date) ==
  SelectSeq(history, LAMBDA e : IsMainSleep(e) /\ e.dateOfSleep # date)

\* the durations, in hundredths of an hour, of the records that have one
Durations(entries) ==
  LET recs == SelectSeq(entries, LAMBDA e : Truthy(ParseSleepRecord(e).duration_hours))
  IN [i \in 1..Len(recs) |-> ParseSleepRecord(recs[i]).duration_hours.val]

\* sleepComparison of the morning report (duration fields): the average of
\* the history and the difference of the last night to it, in hundredths
SleepComparison(last, window) ==
  IF window = <<>> THEN NullSection
  ELSE LET d == Durations(window)
       IN [kind |-> "comparison",
           vs_7day_avg_duration_hours |->
             IF d = <<>> THEN NotANumber ELSE Num(RoundDiv(Sum(d), Len(d))),
           duration_diff_hours |->
             IF ~Truthy(last.duration_hours) THEN Null
             ELSE IF d = <<>> THEN NotANumber
             ELSE Num(RoundDiv(last.duration_hours.val * Len(d) - Sum(d), Len(d)))]

\* the hrv section of the morning report and of recovery/today
HrvSection(entry, pct) ==
  [kind |-> "hrv", date |-> entry.dateTime, daily_rmssd |-> OrNull(entry.dailyRmssd),
   vs_baseline_percent |-> pct]

ActivitySection_azmUncaught(l, f) ==
  IF Throws(f, "azmByDate") THEN NullSection
  ELSE [kind |-> "activity", date |-> l.yesterday, steps |-> OrNull(f.steps),
        active_zone_minutes |-> [kind |-> "azm", total |-> OrNull(f.azm)]]

\* yesterdayActivity: the summary and, in a try block of its own, the
\* active zone minutes
ActivitySection(l, f) ==
  [kind |-> "activity", date |-> l.yesterday, steps |-> OrNull(f.steps),
   active_zone_minutes |->
     IF Throws(f, "azmByDate") THEN NullSection
     ELSE [kind |-> "azm", total |-> OrNull(f.azm)]]

\* trends of the morning report, from the two cached histories
Trends(l) ==
  LET mins == SelectSeq(l.cachedSleepHistory.items,
                        LAMBDA e : IsMainSleep(e) /\ Truthy(Get(e, "minutesAsleep")))
      m == [i \in 1..Len(mins) |-> mins[i].minutesAsleep.val]
      h == Rmssds(HrvWindow(l.cachedHrvHistory.items))
  IN [kind |-> "trends",
      days_of_data |-> Max(Max(Len(m), Len(h)), 1),
      sleep_avg_duration_hours |->
        IF Len(m) # 0 THEN Num(RoundDiv(Sum(m) * 100, 60 * Len(m))) ELSE Null,
      hrv_avg |-> IF Len(h) # 0 THEN Num(RoundDiv(Sum(h) * 10, Len(h))) ELSE Null]

\* the k-th try block of GET /summary/morning-report
MorningBlock(k, l, f) ==
  CASE k = 1 ->
         IF Throws(f, "sleepRange") THEN l
         ELSE [l EXCEPT !.cachedSleepHistory =
                          Fetched(SleepRange(f.sleep, l.weekAgo, l.yesterday))]
    [] k = 2 ->
         IF Throws(f, "hrvRange") THEN l
         ELSE [l EXCEPT !.cachedHrvHistory =
                          Fetched(HrvRange(f.hrv, l.weekAgo, l.yesterday))]
    [] k = 3 ->
         IF Throws(f, "sleepByDate") THEN l
         ELSE LET last == MainSleep(SleepRange(f.sleep, l.today, l.today))
                  window == IF last.kind # "null" /\ l.cachedSleepHistory.kind # "null"
                            THEN OtherNights(l.cachedSleepHistory.items, last.date)
                            ELSE <<>>
              IN [l EXCEPT !.lastNightSleep = last,
                           !.sleepWindow = window,
                           !.sleepComparison = SleepComparison(last, window)]
    [] k = 4 ->
         IF Throws(f, "activityByDate") THEN l
         ELSE [l EXCEPT !.yesterdayActivity = ActivitySection(l, f)]
    [] k = 5 ->
         IF Throws(f, "hrvByDate") \/ HrvRange(f.hrv, l.today, l.today) = <<>> THEN l
         ELSE LET entry == Head(HrvRange(f.hrv, l.today, l.today))
                  window == HrvWindow(l.cachedHrvHistory.items)
                  pct == VsBaseline(entry.dailyRmssd, Rmssds(window))
              IN [l EXCEPT !.hrvWindow = IF pct = Null THEN <<>> ELSE window,
                           !.hrvData = HrvSection(entry, pct)]
    [] k = 6 ->
         IF Throws(f, "heartRateByDate") THEN l
         ELSE [l EXCEPT !.restingHeartRate = OrNull(f.restingHeartRate)]
    [] k = 7 -> [l EXCEPT !.trends = Trends(l)]

\* the k-th try block of GET /summary/grafana-snapshot
SnapshotBlock(k, l, f) ==
  CASE k = 1 ->
         IF Throws(f, "sleepByDate")
              \/ SelectSeq(SleepRange(f.sleep, l.today, l.today), IsMainSleep) = <<>>
         THEN l
         ELSE LET entry == Head(SelectSeq(SleepRange(f.sleep, l.today, l.today), IsMainSleep))
                  summary == IF "levels" \in DOMAIN entry /\ "summary" \in DOMAIN entry.levels
                             THEN entry.levels.summary ELSE <<>>
              IN [l EXCEPT !.result.sleep_hours =
                             Num(RoundDiv(OrZero(Get(entry, "minutesAsleep")).val * 100, 60)),
                           !.result.sleep_efficiency = Get(entry, "efficiency"),
                           !.result.sleep_deep_min = OrNull(StageMinutes(summary, "deep")),
                           !.result.sleep_light_min = OrNull(StageMinutes(summary, "light")),
                           !.result.sleep_rem_min = OrNull(StageMinutes(summary, "rem")),
                           !.result.sleep_wake_min = OrNull(StageMinutes(summary, "wake"))]
    [] k = 2 ->
         IF Throws(f, "hrvByDate") \/ HrvRange(f.hrv, l.today, l.today) = <<>> THEN l
         ELSE LET cur == OrNull(Head(HrvRange(f.hrv, l.today, l.today)).dailyRmssd)
                  window == HrvWindow(HrvRange(f.hrv, l.weekAgo, l.yesterday))
                  pct == VsBaseline(cur, Rmssds(window))
              IN IF Throws(f, "hrvRange") THEN [l EXCEPT !.result.hrv_rmssd = cur]
                 ELSE [l EXCEPT !.result.hrv_rmssd = cur,
                                !.result.hrv_vs_baseline_pct = pct,
                                !.hrvWindow = IF pct = Null THEN <<>> ELSE window]
    [] k = 3 ->
         IF Throws(f, "spo2ByDate") THEN l
         ELSE [l EXCEPT !.result.spo2_avg = OrNull(f.spo2)]
    [] k = 4 ->
         IF Throws(f, "breathingRateByDate") THEN l
         ELSE [l EXCEPT !.result.breathing_rate = OrNull(f.breathingRate)]
    [] k = 5 ->
         IF Throws(f, "temperatureByDate") THEN l
         ELSE [l EXCEPT !.result.temp_deviation = OrNull(f.tempSkin)]
    [] k = 6 ->
         IF Throws(f, "heartRateByDate") THEN l
         ELSE [l EXCEPT !.result.resting_hr = OrNull(f.restingHeartRate)]

\* the k-th try block of GET /recovery/today
RecoveryBlock(k, l, f) ==
  CASE k = 1 ->
         IF Throws(f, "hrvByDate") \/ HrvRange(f.hrv, l.today, l.today) = <<>> THEN l
         ELSE [l EXCEPT !.hrv = HrvSection(Head(HrvRange(f.hrv, l.today, l.today)), Null)]
    [] k = 2 ->
         IF Throws(f, "spo2ByDate") \/ f.spo2.kind # "num" THEN l
         ELSE [l EXCEPT !.spo2 = [kind |-> "spo2", date |-> l.today, avg |-> OrNull(f.spo2)]]
    [] k = 3 ->
         IF Throws(f, "breathingRateByDate") \/ f.breathingRate.kind # "num" THEN l
         ELSE [l EXCEPT !.breathingRate =
                 [kind |-> "br", date |-> l.today, breathing_rate |-> OrNull(f.breathingRate)]]
    [] k = 4 ->
         IF Throws(f, "temperatureByDate") \/ f.tempSkin.kind # "num" THEN l
         ELSE [l EXCEPT !.temperature =
                 [kind |-> "temp", date |-> l.today, nightly_relative |-> OrNull(f.tempSkin)]]

\* the locals of a handler once it has read the clock: today, yesterday and
\* weekAgo come from three readings r of the clock, in the order the route
\* makes them
Locals(r, reads) ==
  CASE r = "morning-report" ->
         [today |-> reads[1], yesterday |-> reads[2] - 1, weekAgo |-> reads[3] - Week,
          cachedSleepHistory |-> NotFetched, cachedHrvHistory |-> NotFetched,
          lastNightSleep |-> NullSection, sleepComparison |-> NullSection,
          yesterdayActivity |-> NullSection, hrvData |-> NullSection,
          restingHeartRate |-> Null, trends |-> NullSection,
          sleepWindow |-> <<>>, hrvWindow |-> <<>>]
    [] r = "grafana-snapshot" ->
         [today |-> reads[1], weekAgo |-> reads[2] - Week, yesterday |-> reads[3] - 1,
          result |-> [date |-> reads[1], sleep_hours |-> Null, sleep_efficiency |-> Null,
                      sleep_deep_min |-> Null, sleep_light_min |-> Null,
                      sleep_rem_min |-> Null, sleep_wake_min |-> Null, hrv_rmssd |-> Null,
                      hrv_vs_baseline_pct |-> Null, spo2_avg |-> Null,
                      breathing_rate |-> Null, temp_deviation |-> Null,
                      resting_hr |-> Null],
          sleepWindow |-> <<>>, hrvWindow |-> <<>>]
    [] r = "recovery/today" ->
         [today |-> reads[1], hrv |-> NullSection, spo2 |-> NullSection,
          breathingRate |-> NullSection, temperature |-> NullSection,
          sleepWindow |-> <<>>, hrvWindow |-> <<>>]

\* three successive readings of the clock: midnight may pass between two
ClockReads ==
  {<<Today, Today, Today>>, <<Today, Today, Today + 1>>, <<Today, Today + 1, Today + 1>>}

\* JSON.stringify() of an object: a property whose value is undefined is
\* left out
JsonObject(o) ==
  [k \in {k \in DOMAIN o : k = "date" \/ o[k].kind # "undefined"} |-> o[k]]

\* the number a section holds after JSON.stringify()
JsonSection(x) ==
  IF x.kind = "comparison"
  THEN [x EXCEPT !.vs_7day_avg_duration_hours = Json(@), !.duration_diff_hours = Json(@)]
  ELSE IF x.kind = "hrv" THEN [x EXCEPT !.vs_baseline_percent = Json(@)]
  ELSE x

\* res.json(...) of the route
ReportBody(r, l) ==
  CASE r = "morning-report" ->
         [last_night_sleep |-> l.lastNightSleep,
          sleep_comparison |-> JsonSection(l.sleepComparison),
          yesterday_activity |-> l.yesterdayActivity,
          recovery |-> [hrv |-> JsonSection(l.hrvData)],
          resting_heart_rate |-> l.restingHeartRate,
          trends |-> l.trends,
          insights |-> <<>>]
    [] r = "grafana-snapshot" ->
         JsonObject([l.result EXCEPT !.hrv_vs_baseline_pct = Json(@)])
    [] r = "recovery/today" ->
         [date |-> l.today, hrv |-> l.hrv, spo2 |-> l.spo2,
          breathing_rate |-> l.breathingRate, temperature |-> l.temperature,
          cardio_fitness |-> Null, insights |-> <<>>]

\* a request for a composite report arrives.  Either the provider has its
\* usual data and any of the fetches of the route fail, or every fetch
\* answers and the provider has any HRV data or any sleep data.
ReportInit ==
  /\ Constructed("complete", "absent", TRUE, TRUE, TRUE)
  /\ route \in CompositeRoutes
  /\ req = <<>>
  /\ \/ \E down \in SUBSET Fetches(route) : fitbit = Provider(down, UsualHrv, UsualSleep)
     \/ \E hrv \in [DataDates -> HrvData] : fitbit = Provider({}, hrv, UsualSleep)
     \/ \E sleep \in [DataDates -> SleepData] : fitbit = Provider({}, UsualHrv, sleep)
  /\ local = <<>>
  /\ res = <<>>
  /\ step = 0

\* the handler starts: it reads the clock for today, yesterday and weekAgo
Arrive ==
  /\ step = 0
  /\ \E reads \in ClockReads : local' = Locals(route, reads)
  /\ step' = 1
  /\ UNCHANGED <<client, route, req, fitbit, res>>

\* one try block of GET /summary/morning-report
MorningReport ==
  /\ route = "morning-report"
  /\ step \in 1..Blocks(route)
  /\ local' = MorningBlock(step, local, fitbit)
  /\ step' = step + 1
  /\ UNCHANGED <<client, route, req, fitbit, res>>

\* one try block of GET /summary/grafana-snapshot
GrafanaSnapshot ==
  /\ route = "grafana-snapshot"
  /\ step \in 1..Blocks(route)
  /\ local' = SnapshotBlock(step, local, fitbit)
  /\ step' = step + 1
  /\ UNCHANGED <<client, route, req, fitbit, res>>

\* one try block of GET /recovery/today
RecoveryToday ==
  /\ route = "recovery/today"
  /\ step \in 1..Blocks(route)
  /\ local' = RecoveryBlock(step, local, fitbit)
  /\ step' = step + 1
  /\ UNCHANGED <<client, route, req, fitbit, res>>

\* res.json(...)
Respond ==
  /\ step = Blocks(route) + 1
  /\ res' = ReportBody(route, local)
  /\ step' = step + 1
  /\ UNCHANGED <<client, route, req, fitbit, local>>

ReportNext == Arrive \/ MorningReport \/ GrafanaSnapshot \/ RecoveryToday \/ Respond

ReportSpec == ReportInit /\ [][ReportNext]_vars

\* ---------------------------------------------------- the history routes
\* the date strings of a payload, as their characters' digits: the empty
\* string, two zero-padded days and an unpadded one
HistoryDates == {<<>>, <<0, 9>>, <<1, 0>>, <<9>>}

\* what the provider lists for one entry: its date and, for a sleep log,
\* whether it is the main sleep
Items == [date : HistoryDates, main : BOOLEAN]

\* the payloads of a range query: up to MaxEntries entries in any order,
\* dates repeated or not
Payloads == UNION {[1..n -> Items] : n \in 0..MaxEntries}

\* a.localeCompare(b) for strings of digits: negative, zero or positive
RECURSIVE LocaleCompare(_, _)
LocaleCompare(a, b) ==
  IF a = <<>> /\ b = <<>> THEN 0
  ELSE IF a = <<>> THEN -1
  ELSE IF b = <<>> THEN 1
  ELSE IF Head(a) < Head(b) THEN -1
  ELSE IF Head(a) > Head(b) THEN 1
  ELSE LocaleCompare(Tail(a), Tail(b))

Comparator_ascending(r, a, b) == LocaleCompare(a.date, b.date)

\* the comparator of the route's records.sort(...): b.date.localeCompare(a.date)
\* on the history routes, a.date.localeCompare(b.date) on sleep/stages-history
Comparator(r, a, b) ==
  IF r = "sleep/stages-history" THEN LocaleCompare(a.date, b.date)
  ELSE LocaleCompare(b.date, a.date)

\* x put into the sorted records after every record that does not come
\* after it: Array.prototype.sort is stable
RECURSIVE Insert(_, _, _)
Insert(r, x, sorted) ==
  IF sorted = <<>> THEN <<x>>
  ELSE IF Comparator(r, Head(sorted), x) <= 0
       THEN <<Head(sorted)>> \o Insert(r, x, Tail(sorted))
       ELSE <<x>> \o sorted

\* records.sort(comparator of the route)
RECURSIVE Sort(_, _)
Sort(r, records) ==
  IF records = <<>> THEN <<>>
  ELSE Insert(r, records[Len(records)], Sort(r, SubSeq(records, 1, Len(records) - 1)))

\* the entry the provider sends for an item, in the shape the route reads
RawEntry(r, item) ==
  IF r \in {"sleep/history", "sleep/stages-history"}
  THEN [dateOfSleep |-> item.date, isMainSleep |-> item.main, minutesAsleep |-> Num(420)]
  ELSE IF r = "activity/history" THEN [dateTime |-> item.date, value |-> <<"9">>]
  ELSE [dateTime |-> item.date, value |-> Num(60)]

\* the record a history route makes of an entry
HistoryRecord(r, entry) ==
  CASE r = "sleep/history" -> ParseSleepRecord(entry)
    [] r = "sleep/stages-history" ->
         LET summary == IF "levels" \in DOMAIN entry /\ "summary" \in DOMAIN entry.levels
                        THEN entry.levels.summary ELSE <<>>
         IN [date |-> IF "dateOfSleep" \in DOMAIN entry THEN entry.dateOfSleep ELSE <<>>,
             deep |-> OrZero(StageMinutes(summary, "deep")),
             light |-> OrZero(StageMinutes(summary, "light")),
             rem |-> OrZero(StageMinutes(summary, "rem")),
             wake |-> OrZero(StageMinutes(summary, "wake")),
             total_sleep |-> OrZero(Get(entry, "minutesAsleep")),
             efficiency |-> OrNull(Get(entry, "efficiency"))]
    [] r = "recovery/history" ->
         [date |-> entry.dateTime, daily_rmssd |-> OrNull(entry.value)]
    [] r = "heart-rate/resting/history" ->
         [date |-> entry.dateTime, value |-> OrNull(entry.value)]
    [] r = "activity/history" ->
         [date |-> entry.dateTime, steps |-> OrDefault(ParseInt(entry.value), 0)]

\* the entries a history route makes records of: the sleep routes keep the
\* main sleeps, the others every entry
Kept(r, entries) ==
  IF r \in {"sleep/history", "sleep/stages-history"}
  THEN SelectSeq(entries, IsMainSleep)
  ELSE entries

\* the records of the response: one per kept entry, then sorted
HistoryRecords(r, payload) ==
  LET entries == [i \in 1..Len(payload) |-> RawEntry(r, payload[i])]
      kept == Kept(r, entries)
  IN Sort(r, [i \in 1..Len(kept) |-> HistoryRecord(r, kept[i])])

\* a history request arrives without a days parameter; the provider will
\* answer the range query with any payload
HistoryInit ==
  /\ Constructed("complete", "absent", TRUE, TRUE, TRUE)
  /\ route \in HistoryRoutes
  /\ req = [has |-> FALSE, days |-> <<>>]
  /\ fitbit \in Payloads
  /\ local = <<>>
  /\ res = <<>>
  /\ step = "received"

\* the range fetch answers: records are made, sorted and sent
HistoryRespond ==
  /\ step = "fetching"
  /\ route \in HistoryRoutes
  /\ res' = [days_requested |-> local.days, records |-> HistoryRecords(route, fitbit)]
  /\ step' = "responded"
  /\ UNCHANGED <<client, route, req, fitbit, local>>

HistoryNext == HistoryStart \/ HistoryRespond

HistorySpec == HistoryInit /\ [][HistoryNext]_vars

\* ------------------------------------------------------ sleep/last-night
\* a sleep log with the stage minutes d, l and r
StagedEntry(d, l, r) ==
  [dateOfSleep |-> <<0, 9>>, isMainSleep |-> TRUE, minutesAsleep |-> Num(d + l + r),
   levels |-> [summary |-> [deep |-> Num(d), light |-> Num(l), rem |-> Num(r),
                            wake |-> Num(30)]]]

\* sleep logs that differ by their flag (true, false or absent) and by their
\* minutes asleep
FlaggedEntries ==
  {[dateOfSleep |-> <<0, 9>>, isMainSleep |-> b, minutesAsleep |-> Num(m)] :
     b \in BOOLEAN, m \in {90, 420}}
    \cup {[dateOfSleep |-> <<0, 9>>, minutesAsleep |-> Num(m)] : m \in {90, 420}}

\* the payloads of getSleepByDate: no list, a list of up to MaxEntries logs,
\* or one log with any stage minutes up to MaxStageMinutes
LastNightPayloads ==
  {[summary |-> <<>>]}
    \cup {[sleep |-> logs] : logs \in UNION {[1..n -> FlaggedEntries] : n \in 0..MaxEntries}}
    \cup {[sleep |-> <<StagedEntry(d, l, r)>>] : d, l, r \in 0..MaxStageMinutes}
    \cup {[sleep |-> <<StagedEntry(90, 270, 90)>>]}

\* (rawData as { sleep?: unknown[] }).sleep || []
SleepArray(rawData) == IF "sleep" \in DOMAIN rawData THEN rawData.sleep ELSE <<>>

LastNightSleep_noFallback(sleepArray) ==
  IF SelectSeq(sleepArray, IsMainSleep) # <<>>
  THEN ParseSleepRecord(Head(SelectSeq(sleepArray, IsMainSleep)))
  ELSE NullSection

\* sleepRecord of GET /sleep/last-night: the first entry with a truthy
\* isMainSleep, else the first entry, else null
LastNightSleep(sleepArray) ==
  IF SelectSeq(sleepArray, IsMainSleep) # <<>>
  THEN ParseSleepRecord(Head(SelectSeq(sleepArray, IsMainSleep)))
  ELSE IF Len(sleepArray) > 0 THEN ParseSleepRecord(sleepArray[1])
  ELSE NullSection

\* a request for last night's sleep arrives; the provider will answer with
\* any payload
LastNightInit ==
  /\ Constructed("complete", "absent", TRUE, TRUE, TRUE)
  /\ route = "sleep/last-night"
  /\ req = <<>>
  /\ fitbit \in LastNightPayloads
  /\ local = <<>>
  /\ res = <<>>
  /\ step = "received"

\* GET /sleep/last-night
LastNight ==
  /\ route = "sleep/last-night"
  /\ step = "received"
  /\ local' = [sleepArray |-> SleepArray(fitbit)]
  /\ res' = [sleep |-> LastNightSleep(SleepArray(fitbit)), raw_data |-> fitbit,
             insights |-> <<>>]
  /\ step' = "responded"
  /\ UNCHANGED <<client, route, req, fitbit>>

LastNightNext == LastNight

LastNightSpec == LastNightInit /\ [][LastNightNext]_vars

\* ----------------------------------------------------------------- claims
InFlight == {"fetch", "exchange", "persist"}

\* the outcome of the i-th GET of invocation p
Got(p, i) == resp[p][i]

\* the outcome of the last GET of invocation p
Last(p) == resp[p][Len(resp[p])]

Unauthenticated == FitbitAPIError(UnauthorizedStatus, "no access token", <<>>)
AuthExpired == FitbitAPIError(UnauthorizedStatus, "token expired", <<>>)

TypeOK ==
  /\ accessToken \in Nat /\ refreshToken \in Nat
  /\ pc \in [Callers -> {"idle", "fetch", "exchange", "persist", "done", "returned"}]
  /\ saved \in [Callers -> SaveOutcomes \cup {"none"}]
  /\ \A p \in Callers : gets[p] <= 2 /\ posts[p] <= 1

\* C1: after a first 401 and a successful refresh the GET is re-issued
\* exactly once (two GETs, one exchange); the second response is final, and
\* a second 401 reaches the caller as an error with status 401.
C1_RetryExactlyOnce ==
  \A p \in Callers :
    /\ (refreshed[p] = "ok" \/ (pc[p] = "done" /\ exchanged[p] = "ok"))
         => /\ gets[p] = 2
            /\ posts[p] = 1
            /\ Got(p, 1).status = UnauthorizedStatus
    /\ Len(resp[p]) = 2 => pc[p] = "done"
    /\ (pc[p] = "done" /\ Len(resp[p]) = 2 /\ Got(p, 2).status = UnauthorizedStatus)
         => /\ result[p].kind = "error"
            /\ result[p].name = "FitbitAPIError"
            /\ result[p].statusCode = UnauthorizedStatus
            /\ reply[p].status = UnauthorizedStatus

C1_Witness ==
  \E p \in Callers :
    /\ pc[p] = "done"
    /\ refreshed[p] = "ok"
    /\ Len(resp[p]) = 2
    /\ Got(p, 1).status = UnauthorizedStatus
    /\ Got(p, 2).status = UnauthorizedStatus

\* C2: after a first 401 and a failed refresh (inputs missing, or the
\* exchange answered anything but a usable 2xx, or failed in transport) the
\* call raises the token-expired error with status 401 after one GET only.
C2_RefreshFailureSurfaces ==
  \A p \in Callers :
    (/\ pc[p] = "done"
     /\ Len(resp[p]) >= 1
     /\ Got(p, 1).status = UnauthorizedStatus
     /\ exchanged[p] # "ok")
      => /\ result[p] = AuthExpired
         /\ refreshed[p] = "fail"
         /\ gets[p] = 1
         /\ reply[p].status = UnauthorizedStatus

C2_Witness ==
  \E p \in Callers :
    /\ pc[p] = "done"
    /\ Len(resp[p]) = 1
    /\ Got(p, 1).status = UnauthorizedStatus
    /\ exchanged[p] = "rejected"
    /\ gets[p] = 1

\* C3: an invocation made while no access token is held fails with the
\* unauthenticated error in its first step: no GET, no exchange, and the
\* stored credential and the persisted copies are unchanged.
C3_FailFast ==
  [][\A p \in Callers :
       (pc[p] = "idle" /\ pc'[p] # "idle" /\ accessToken = NoTok)
         => /\ pc'[p] = "done"
            /\ result'[p] = Unauthenticated
            /\ gets'[p] = 0 /\ posts'[p] = 0
            /\ sent'[p] = <<>> /\ posted'[p] = <<>>
            /\ UNCHANGED <<cred, stores, nextTok>>]_vars

C3_Witness ==
  \E p \in Callers :
    /\ pc[p] = "done"
    /\ result[p] = Unauthenticated
    /\ gets[p] = 0
    /\ refreshToken # NoTok

\* C4: while no access token is held no invocation is in flight, every
\* finished invocation failed with the unauthenticated error, and no step
\* installs an access token.
C4_StaysEmpty ==
  /\ [](accessToken = NoTok =>
          \A p \in Callers :
            /\ pc[p] \notin InFlight
            /\ gets[p] = 0 /\ posts[p] = 0
            /\ pc[p] = "done" => result[p] = Unauthenticated)
  /\ [][accessToken = NoTok => accessToken' = NoTok]_vars

C4_Witness ==
  /\ loadedFrom = "none"
  /\ accessToken = NoTok
  /\ \E p \in Callers :
       /\ p > 1
       /\ pc[p] = "done"
       /\ result[p] = Unauthenticated

\* C5: every invocation terminates: eventually none is in flight any more
\* (an invocation leaves flight only by settling).  It issues at most two
\* GETs and at most one exchange; an exchange happens only after a first 401
\* and a second GET only after a successful exchange, so any other first
\* outcome ends the invocation with one GET and no exchange.
C5_BoundedAndTerminates ==
  /\ [](\A p \in Callers :
          /\ gets[p] <= 2 /\ posts[p] <= 1
          /\ posts[p] = 1 =>
               (Len(resp[p]) >= 1 /\ Got(p, 1).status = UnauthorizedStatus)
          /\ gets[p] = 2 => (posts[p] = 1 /\ exchanged[p] = "ok")
          /\ (pc[p] = "done" /\ Len(resp[p]) >= 1
                /\ Got(p, 1).status # UnauthorizedStatus)
               => (gets[p] = 1 /\ posts[p] = 0 /\ Len(resp[p]) = 1))
  /\ <>[](\A p \in Callers : pc[p] \notin InFlight)

C5_Witness ==
  \E p \in Callers :
    /\ pc[p] = "done"
    /\ gets[p] = 2
    /\ posts[p] = 1
    /\ Got(p, 2).status = 200

\* C6: a final response raises the rate-limited error exactly when its
\* status is 429, on the first attempt or on the retry, and the error
\* handler reports that error as rate_limit_exceeded with status 429.
C6_RateLimitDistinct ==
  \A p \in Callers :
    pc[p] = "done" =>
      /\ (result[p].name = "FitbitRateLimitError")
           <=> (Len(resp[p]) >= 1 /\ Last(p).status = RateLimitStatus)
      /\ result[p].name = "FitbitRateLimitError"
           => reply[p] = [status |-> RateLimitStatus, error |-> "rate_limit_exceeded"]
      /\ reply[p].error = "rate_limit_exceeded"
           => result[p].name = "FitbitRateLimitError"

C6_Witness ==
  \E p \in Callers :
    /\ pc[p] = "done"
    /\ Len(resp[p]) = 2
    /\ Got(p, 2).status = RateLimitStatus
    /\ reply[p].error = "rate_limit_exceeded"

\* C7: a final response that is not 2xx, not 429 and not a first-attempt 401
\* raises a FitbitAPIError with that response's status and, as excerpt, the
\* first characters of its body, at most 200 of them.
C7_ProviderError ==
  \A p \in Callers :
    (/\ pc[p] = "done"
     /\ Len(resp[p]) >= 1
     /\ Last(p).failure = "none"
     /\ ~(Last(p).status >= 200 /\ Last(p).status <= 299)
     /\ Last(p).status # RateLimitStatus
     /\ ~(Len(resp[p]) = 1 /\ Last(p).status = UnauthorizedStatus))
      => /\ result[p].kind = "error"
         /\ result[p].name = "FitbitAPIError"
         /\ result[p].statusCode = Last(p).status
         /\ Len(result[p].excerpt) <= ExcerptLimit
         /\ Len(result[p].excerpt) =
              (IF Len(text[p]) < ExcerptLimit THEN Len(text[p]) ELSE ExcerptLimit)
         /\ \A i \in 1..Len(result[p].excerpt) : result[p].excerpt[i] = text[p][i]

C7_Witness ==
  \E p \in Callers :
    /\ pc[p] = "done"
    /\ Len(resp[p]) >= 1
    /\ Last(p).status = 500
    /\ Len(text[p]) > ExcerptLimit
    /\ Len(result[p].excerpt) = ExcerptLimit

C9_RefreshNeedsInputs ==
  [][\A p \in Callers :
       (/\ pc[p] = "fetch" /\ gets[p] = 1
        /\ Len(resp'[p]) = 1
        /\ resp'[p][1].status = UnauthorizedStatus
        /\ (refreshToken = NoTok \/ ~clientId \/ ~clientSecret))
         => /\ refreshed'[p] = "fail"
            /\ posts'[p] = 0
            /\ exchanged'[p] = "none"
            /\ pc'[p] = "done"
            /\ UNCHANGED <<cred, stores, nextTok>>]_vars

C9_Witness ==
  \E p \in Callers :
    /\ pc[p] = "done"
    /\ refreshed[p] = "fail"
    /\ posts[p] = 0
    /\ refreshToken # NoTok /\ clientId /\ ~clientSecret

C11_WholeCredential ==
  /\ [](/\ (accessToken # NoTok /\ refreshToken # NoTok) => accessToken = refreshToken
        /\ ((accessToken = NoTok) # (refreshToken = NoTok))
             => (loadedFrom = "file" /\ FileTok \in {accessToken, refreshToken}))
  /\ [][cred' # cred =>
          /\ accessToken' = nextTok
          /\ refreshToken' = nextTok
          /\ nextTok' > nextTok]_vars

C11_Witness ==
  \E p, q \in Callers :
    /\ p # q
    /\ pc[p] = "persist"
    /\ pc[q] \in {"exchange", "persist"}
    /\ accessToken > FirstExchangeTok
    /\ refreshToken = accessToken

\* C12: when the exchange succeeded and persisting fails (no project id, the
\* secret version refused, the token file not written), the step that
\* receives the exchange installs the new credential, the step in which the
\* failure occurs makes refreshAccessToken() return true and issues the retry
\* with the access token then held, and the outcome of the invocation is the
\* outcome of that second GET.
C12_PersistFailureSwallowed ==
  /\ [](\A p \in Callers :
          saved[p] \in PersistFailures =>
            /\ refreshed[p] = "ok"
            /\ gets[p] = 2
            /\ pc[p] \in {"fetch", "done"}
            /\ pc[p] = "done" =>
                 /\ Len(resp[p]) = 2
                 /\ result[p] # AuthExpired
                 /\ (Last(p).status = 200 /\ result[p].name # "SyntaxError")
                      => (result[p] = Payload /\ reply[p] = OkReply))
  /\ [][\A p \in Callers :
          /\ (pc[p] = "exchange" /\ exchanged'[p] = "ok")
               => /\ cred' = <<nextTok, nextTok>>
                  /\ pc'[p] \in {"persist", "fetch"}
          /\ (saved[p] = "none" /\ saved'[p] \in PersistFailures)
               => /\ pc'[p] = "fetch"
                  /\ sent'[p][Len(sent'[p])] = accessToken'
                  /\ accessToken' >= FirstExchangeTok]_vars

C12_Witness ==
  \E p \in Callers :
    /\ pc[p] = "done"
    /\ saved[p] = "secretFailed"
    /\ Len(resp[p]) = 2
    /\ result[p] = Payload
    /\ secretStore = NoTok
    /\ accessToken >= FirstExchangeTok

\* C13: after loadToken() the client holds a complete pair or nothing: the
\* pair of the environment blob when that is complete, else the pair of the
\* token file when that is complete, else no token at all.
C13_CompleteOrNothing ==
  started = 0 =>
    /\ (accessToken = NoTok) <=> (refreshToken = NoTok)
    /\ loadedFrom = "env" => cred = <<EnvTok, EnvTok>>
    /\ cred \in {<<EnvTok, EnvTok>>, <<FileTok, FileTok>>, <<NoTok, NoTok>>}

\* C14: the channel a successful refresh persists to is the one the active
\* credential was loaded from: Secret Manager when it came from the
\* environment blob, the token file otherwise (a write that is attempted and
\* fails counts for its channel).
C14_ChannelLoadedFrom ==
  \A p \in Callers :
    saved[p] # "none" =>
      /\ (saved[p] \in {"secret", "secretFailed", "noProject"}) <=> (loadedFrom = "env")
      /\ (saved[p] \in {"file", "fileFailed"}) <=> (loadedFrom # "env")

\* C15: refreshes are not serialized.  An invocation whose first GET answers
\* 401 issues its own exchange with the refresh token then held, whatever
\* the other invocations are doing; every successful exchange installs its
\* credential over the stored one, and every write that succeeds replaces
\* the persisted copy with the writer's credential.
C15_NoSingleFlight ==
  [][\A p \in Callers :
       /\ (/\ pc[p] = "fetch" /\ gets[p] = 1
           /\ Len(resp'[p]) = 1 /\ resp'[p][1].status = UnauthorizedStatus
           /\ refreshToken # NoTok /\ clientId /\ clientSecret)
            => /\ pc'[p] = "exchange"
               /\ posts'[p] = 1
               /\ posted'[p] = <<refreshToken>>
       /\ (pc[p] = "exchange" /\ exchanged'[p] = "ok")
            => /\ cred' = <<nextTok, nextTok>>
               /\ (saved'[p] = "file" => fileStore' = nextTok)
       /\ (pc[p] = "persist" /\ saved'[p] = "secret")
            => secretStore' = pending[p]]_vars

C15_Witness ==
  \E p, q \in Callers :
    /\ p # q
    /\ pc[p] = "persist" /\ pc[q] = "fetch"
    /\ posts[p] = 1 /\ posts[q] = 1
    /\ posted[p] = posted[q]
    /\ Len(posted[p]) = 1
    /\ saved[q] = "secret"
    /\ secretStore = accessToken
    /\ pending[p] # NoTok /\ pending[p] < accessToken

\* a string without its trailing white space
RECURSIVE TrimEnd(_)
TrimEnd(s) ==
  IF s # <<>> /\ s[Len(s)] = " " THEN TrimEnd(SubSeq(s, 1, Len(s) - 1)) ELSE s

\* a string without its sign, if it has one
Unsigned(s) == IF s # <<>> /\ Head(s) \in {"+", "-"} THEN Tail(s) ELSE s

\* the string denotes a number: white space around an optionally signed
\* decimal numeral, with or without a fraction
IsNumeric(s) ==
  LET u == Unsigned(TrimEnd(TrimStart(s)))
  IN /\ \E i \in 1..Len(u) : u[i] \in Digits
     /\ \A i \in 1..Len(u) : u[i] \in Digits \cup {"."}
     /\ Cardinality({i \in 1..Len(u) : u[i] = "."}) <= 1

\* the string does not start, after white space and a sign, with a digit
NoLeadingInteger(s) ==
  LET u == Unsigned(TrimStart(s)) IN u = <<>> \/ Head(u) \notin Digits

\* the string is an integer numeral: digits, with or without a minus sign
IsInteger(s) ==
  LET u == IF s # <<>> /\ Head(s) = "-" THEN Tail(s) ELSE s
  IN u # <<>> /\ \A i \in 1..Len(u) : u[i] \in Digits

\* the integer an integer numeral denotes
IntValue(s) == IF Head(s) = "-" THEN -Decimal(Tail(s)) ELSE Decimal(s)

C20_ClampsEveryInteger ==
  (step = "fetching" /\ req.has /\ IsInteger(req.days)) =>
    local.days = Min(Max(IntValue(req.days), MinDays), MaxDays(route))

\* the handler has answered
Responded == step = Blocks(route) + 2

\* the try block k of route r
Block(r, k, l, f) ==
  CASE r = "morning-report" -> MorningBlock(k, l, f)
    [] r = "grafana-snapshot" -> SnapshotBlock(k, l, f)
    [] r = "recovery/today" -> RecoveryBlock(k, l, f)

\* the locals after the try blocks k.. of route r
RECURSIVE Run(_, _, _, _)
Run(r, k, l, f) == IF k > Blocks(r) THEN l ELSE Run(r, k + 1, Block(r, k, l, f), f)

\* the clock readings the handler made
ReadsOf(r, l) ==
  CASE r = "morning-report" -> <<l.today, l.yesterday + 1, l.weekAgo + Week>>
    [] r = "grafana-snapshot" -> <<l.today, l.weekAgo + Week, l.yesterday + 1>>
    [] r = "recovery/today" -> <<l.today, l.today, l.today>>

\* the response of the same request had no fetch failed
AllUp == ReportBody(route, Run(route, 1, Locals(route, ReadsOf(route, local)),
                               [fitbit EXCEPT !.down = {}]))

\* the sub-sections of the response of a route, each with its own fetches
Sections(r) ==
  CASE r = "morning-report" ->
         {<<"last_night_sleep", {"sleepByDate"}>>,
          <<"sleep_comparison", {"sleepByDate", "sleepRange"}>>,
          <<"yesterday_activity", {"activityByDate", "azmByDate"}>>,
          <<"recovery", {"hrvByDate", "hrvRange"}>>,
          <<"resting_heart_rate", {"heartRateByDate"}>>}
    [] r = "grafana-snapshot" ->
         {<<"sleep_hours", {"sleepByDate"}>>,
          <<"hrv_rmssd", {"hrvByDate"}>>,
          <<"hrv_vs_baseline_pct", {"hrvByDate", "hrvRange"}>>,
          <<"spo2_avg", {"spo2ByDate"}>>,
          <<"breathing_rate", {"breathingRateByDate"}>>,
          <<"temp_deviation", {"temperatureByDate"}>>,
          <<"resting_hr", {"heartRateByDate"}>>}
    [] r = "recovery/today" ->
         {<<"hrv", {"hrvByDate"}>>,
          <<"spo2", {"spo2ByDate"}>>,
          <<"breathing_rate", {"breathingRateByDate"}>>,
          <<"temperature", {"temperatureByDate"}>>}

\* the first fetch of a sub-section: when it fails the sub-section is null
Primary(r) ==
  CASE r = "morning-report" ->
         {<<"last_night_sleep", "sleepByDate">>, <<"sleep_comparison", "sleepByDate">>,
          <<"sleep_comparison", "sleepRange">>, <<"yesterday_activity", "activityByDate">>,
          <<"resting_heart_rate", "heartRateByDate">>}
    [] r = "grafana-snapshot" ->
         {<<"sleep_hours", "sleepByDate">>, <<"hrv_rmssd", "hrvByDate">>,
          <<"hrv_vs_baseline_pct", "hrvByDate">>, <<"hrv_vs_baseline_pct", "hrvRange">>,
          <<"spo2_avg", "spo2ByDate">>, <<"breathing_rate", "breathingRateByDate">>,
          <<"temp_deviation", "temperatureByDate">>, <<"resting_hr", "heartRateByDate">>}
    [] r = "recovery/today" ->
         {<<"hrv", "hrvByDate">>, <<"spo2", "spo2ByDate">>,
          <<"breathing_rate", "breathingRateByDate">>,
          <<"temperature", "temperatureByDate">>}

IsNull(x) == x = Null \/ x = NullSection

\* C16: the handler of a composite report answers whatever fetches fail:
\* from every state it is in, the rest of its try blocks run to a response.
\* In the response a sub-section whose fetch failed is null (in the morning
\* report the hrv of recovery, and the active zone minutes of an activity
\* that was fetched); and a sub-section whose own fetches all answered is
\* the one the response has when no fetch fails at all.
C16_PartialFailure ==
  /\ step \in 1..(Blocks(route) + 1) =>
       ReportBody(route, Run(route, step, local, fitbit)) # <<>>
  /\ Responded =>
       /\ res = ReportBody(route, local)
       /\ \A s \in Primary(route) : Throws(fitbit, s[2]) => IsNull(res[s[1]])
       /\ \A s \in Sections(route) :
            (s[2] \cap fitbit.down = {}) => res[s[1]] = AllUp[s[1]]
       /\ route = "morning-report" =>
            /\ Throws(fitbit, "hrvByDate") => res.recovery.hrv = NullSection
            /\ (Throws(fitbit, "hrvRange") /\ res.recovery.hrv # NullSection)
                 => res.recovery.hrv.vs_baseline_percent = Null
            /\ ~Throws(fitbit, "activityByDate") =>
                 /\ res.yesterday_activity # NullSection
                 /\ res.yesterday_activity.steps = AllUp.yesterday_activity.steps
                 /\ Throws(fitbit, "azmByDate")
                      => res.yesterday_activity.active_zone_minutes = NullSection

C16_Witness ==
  /\ Responded
  /\ route = "morning-report"
  /\ fitbit.down = {"sleepRange", "azmByDate", "hrvByDate"}
  /\ res.last_night_sleep # NullSection
  /\ res.yesterday_activity # NullSection
  /\ res.recovery.hrv = NullSection

\* the date of the current HRV value
CurrentHrvDate == IF route = "morning-report" THEN local.hrvData.date ELSE local.today

\* C17: in every baseline comparison the window that is averaged holds no
\* sample of the date of the current value (HRV: vs_baseline_percent of the
\* morning report, hrv_vs_baseline_pct of the snapshot; sleep: the
\* sleep_comparison of the morning report).
C17_WindowExcludesCurrent ==
  step >= 1 =>
    /\ \A i \in 1..Len(local.hrvWindow) : local.hrvWindow[i].dateTime # CurrentHrvDate
    /\ \A i \in 1..Len(local.sleepWindow) :
         local.sleepWindow[i].dateOfSleep # local.lastNightSleep.date

\* t is Math.round(a / b): the nearest integer, halves up
IsRounded(t, a, b) ==
  IF b > 0 THEN (2 * t - 1) * b <= 2 * a /\ 2 * a < (2 * t + 1) * b
  ELSE (2 * t - 1) * (-b) <= -(2 * a) /\ -(2 * a) < (2 * t + 1) * (-b)

\* the percent difference the response reports, when the current HRV entry
\* and the history were both fetched
ReportedPct ==
  IF route = "morning-report" THEN res.recovery.hrv.vs_baseline_percent
  ELSE res.hrv_vs_baseline_pct

\* the response reports the percent difference of the claim, the window
\* being the values of the history that satisfy Sample and a current value
\* being present when it satisfies Sample
BaselineAsClaimed(Sample(_)) ==
  (/\ Responded
   /\ route \in {"morning-report", "grafana-snapshot"}
   /\ ~Throws(fitbit, "hrvByDate") /\ ~Throws(fitbit, "hrvRange")
   /\ HrvRange(fitbit.hrv, local.today, local.today) # <<>>)
    => LET history == HrvRange(fitbit.hrv, local.weekAgo, local.yesterday)
           kept == SelectSeq(history, LAMBDA e : Sample(e.dailyRmssd))
           w == [i \in 1..Len(kept) |-> kept[i].dailyRmssd.val]
           cur == Head(HrvRange(fitbit.hrv, local.today, local.today)).dailyRmssd
       IN /\ ReportedPct.kind \in {"null", "num"}
          /\ IF w = <<>> \/ Sum(w) = 0 \/ ~Sample(cur)
             THEN ReportedPct = Null
             ELSE /\ ReportedPct.kind = "num"
                  /\ IsRounded(ReportedPct.val, 1000 * (cur.val * Len(w) - Sum(w)), Sum(w))

\* C18 as stated: the window is the samples of the history, the current
\* value is missing when the entry carries no number.
C18_AnyNumberIsASample == BaselineAsClaimed(LAMBDA j : j.kind = "num")

\* C18, amended: the window is the samples of the history whose value is
\* not zero, and a current value of zero counts as missing.  The reported
\* percent difference is null when that window is empty, when its average
\* is zero, or when the current value is missing; otherwise it is
\* round((current - avg) / avg * 1000) / 10 (here in tenths); it is never
\* infinite or not a number.  55 against 50, 52, 54, 58, 60 gives 0.4.
C18_BaselinePercent ==
  /\ BaselineAsClaimed(LAMBDA j : j.kind = "num" /\ j.val # 0)
  /\ VsBaseline(Num(55), <<50, 52, 54, 58, 60>>) = Num(4)

C18_Witness ==
  /\ Responded
  /\ route = "grafana-snapshot"
  /\ local.hrvWindow # <<>>
  /\ \E i \in 1..Len(local.hrvWindow) : local.hrvWindow[i].dailyRmssd = Num(60)
  /\ \E d \in DataDates : fitbit.hrv[d] = Entry(Num(0))
  /\ res.hrv_vs_baseline_pct = Num(-167)

\* the history handler has answered
HistoryResponded == step = "responded" /\ route \in HistoryRoutes

\* the dates of the records of the response, in their order
RecordDates == [i \in 1..Len(res.records) |-> res.records[i].date]

\* the dates of the provider's entries the route keeps
KeptDates ==
  LET kept == SelectSeq(fitbit, LAMBDA it :
                it.main \/ route \notin {"sleep/history", "sleep/stages-history"})
  IN [i \in 1..Len(kept) |-> kept[i].date]

\* how many times x occurs in s
Count(s, x) == Cardinality({i \in DOMAIN s : s[i] = x})

\* C21 as stated: the records of a history route are strictly descending by
\* date string, those of sleep/stages-history strictly ascending, whatever
\* the payload.
C21_StrictlyOrdered ==
  HistoryResponded =>
    \A i \in 1..(Len(RecordDates) - 1) :
      IF route = "sleep/stages-history"
      THEN LocaleCompare(RecordDates[i], RecordDates[i + 1]) < 0
      ELSE LocaleCompare(RecordDates[i], RecordDates[i + 1]) > 0

\* C21, amended: the records are the kept entries of the payload, each as
\* many times as the payload lists it, in descending order of date string on
\* the history routes and in ascending order on sleep/stages-history; two
\* records of the same date stay next to each other, so the order is strict
\* exactly when the kept entries have different dates.
C21_Ordered ==
  HistoryResponded =>
    /\ \A i \in 1..(Len(RecordDates) - 1) :
         IF route = "sleep/stages-history"
         THEN LocaleCompare(RecordDates[i], RecordDates[i + 1]) <= 0
         ELSE LocaleCompare(RecordDates[i], RecordDates[i + 1]) >= 0
    /\ Len(RecordDates) = Len(KeptDates)
    /\ \A d \in HistoryDates : Count(RecordDates, d) = Count(KeptDates, d)
    /\ (\A i, j \in 1..Len(KeptDates) : i # j => KeptDates[i] # KeptDates[j])
         => \A i \in 1..(Len(RecordDates) - 1) : RecordDates[i] # RecordDates[i + 1]

C21_Witness ==
  /\ HistoryResponded
  /\ route = "sleep/history"
  /\ KeptDates = << <<0, 9>>, <<9>>, <<1, 0>> >>
  /\ RecordDates = << <<9>>, <<1, 0>>, <<0, 9>> >>

\* last night's sleep was answered with one log that has a stage summary
StagedResponse ==
  /\ route = "sleep/last-night" /\ step = "responded"
  /\ Len(local.sleepArray) = 1
  /\ "levels" \in DOMAIN local.sleepArray[1]

\* a percentage in tenths, null counted as 0
PercentOrZero(j) == IF j.kind = "num" THEN j.val ELSE 0

\* C22: for stage minutes deep, light and rem with a positive total, the
\* three percentages of the record (null counted as 0) sum to within 0.3 of
\* 100, and each is round(stage / total * 1000) / 10, null for a stage of 0
\* minutes; 90/270/90 gives 20.0/60.0/20.0.  Percentages are in tenths.
C22_StagePercentages ==
  /\ StagedResponse =>
       LET m == local.sleepArray[1].levels.summary
           total == m.deep.val + m.light.val + m.rem.val
           st == res.sleep.stages
           rounded(pct, min) ==
             IF min = 0 THEN pct = Null
             ELSE pct.kind = "num" /\ IsRounded(pct.val, min * 1000, total)
       IN total > 0 =>
            /\ rounded(st.deep_percent, m.deep.val)
            /\ rounded(st.light_percent, m.light.val)
            /\ rounded(st.rem_percent, m.rem.val)
            /\ PercentOrZero(st.deep_percent) + PercentOrZero(st.light_percent)
                 + PercentOrZero(st.rem_percent) \in 997..1003
  /\ LET st == ParseSleepRecord(StagedEntry(90, 270, 90)).stages
     IN <<st.deep_percent, st.light_percent, st.rem_percent>> = <<Num(200), Num(600), Num(200)>>

C22_Witness ==
  /\ StagedResponse
  /\ local.sleepArray[1].levels.summary.deep = Num(1)
  /\ local.sleepArray[1].levels.summary.light = Num(1)
  /\ local.sleepArray[1].levels.summary.rem = Num(4)
  /\ res.sleep.stages.deep_percent = Num(167)
  /\ res.sleep.stages.rem_percent = Num(667)

\* last night's sleep was answered
LastNightResponded == route = "sleep/last-night" /\ step = "responded"

\* the indices of the logs of the payload that are flagged as main sleep
Flagged(logs) ==
  {i \in 1..Len(logs) : "isMainSleep" \in DOMAIN logs[i] /\ logs[i].isMainSleep}

\* C23: last night's sleep is the record of the first log flagged as main
\* sleep; with logs but none flagged, the record of the first log; with no
\* list or an empty one, null.
C23_LastNightSelection ==
  LastNightResponded =>
    LET logs == IF "sleep" \in DOMAIN fitbit THEN fitbit.sleep ELSE <<>>
    IN IF Flagged(logs) # {}
       THEN LET first == CHOOSE i \in Flagged(logs) : \A j \in Flagged(logs) : i <= j
            IN res.sleep = ParseSleepRecord(logs[first])
       ELSE IF Len(logs) > 0 THEN res.sleep = ParseSleepRecord(logs[1])
       ELSE res.sleep = NullSection

C23_Witness ==
  /\ LastNightResponded
  /\ "sleep" \in DOMAIN fitbit
  /\ Len(fitbit.sleep) = 2
  /\ Flagged(fitbit.sleep) = {}
  /\ fitbit.sleep[1].minutesAsleep = Num(90)
  /\ fitbit.sleep[2].minutesAsleep = Num(420)
  /\ res.sleep.minutes_asleep = Num(90)

\* the keys of the result object of the snapshot
SnapshotKeys ==
  {"date", "sleep_hours", "sleep_efficiency", "sleep_deep_min", "sleep_light_min",
   "sleep_rem_min", "sleep_wake_min", "hrv_rmssd", "hrv_vs_baseline_pct", "spo2_avg",
   "breathing_rate", "temp_deviation", "resting_hr"}

\* the fields of a sleep record
SleepRecordKeys ==
  {"date", "start_time", "end_time", "duration_hours", "time_in_bed_minutes",
   "minutes_asleep", "minutes_awake", "efficiency", "stages", "is_main_sleep"}

\* C24: the response has a fixed set of keys whatever the payload, a field
\* the provider omitted being null and not left out: the snapshot carries
\* its 13 keys, each of them but the date a number or null, and a sleep
\* record carries all of its fields.
C24_FixedSchema ==
  Responded =>
    /\ route = "grafana-snapshot" =>
         /\ DOMAIN res = SnapshotKeys
         /\ \A k \in SnapshotKeys \ {"date"} : res[k].kind \in {"num", "null"}
    /\ (route = "morning-report" /\ res.last_night_sleep # NullSection) =>
         /\ DOMAIN res.last_night_sleep = SleepRecordKeys \cup {"kind"}
         /\ \A k \in {"duration_hours", "time_in_bed_minutes", "minutes_asleep",
                      "minutes_awake", "efficiency"} :
              res.last_night_sleep[k].kind \in {"num", "null"}

\* C27: the last_night_sleep of the morning report is the record that
\* GET /sleep/last-night makes of the same payload of getSleepByDate.
C27_SameSelection ==
  (Responded /\ route = "morning-report" /\ ~Throws(fitbit, "sleepByDate")) =>
    res.last_night_sleep = LastNightSleep(SleepRange(fitbit.sleep, local.today, local.today))

\* the error a settled invocation raised is a Gateway error of the kind:
\* rate-limited, unauthenticated (no access token), auth-expired (failed
\* refresh), provider error (a final non-2xx response), unavailable, timeout
ErrorKind(r) ==
  IF r.kind # "error" THEN "none"
  ELSE IF r.name = "FitbitRateLimitError" THEN "rate-limited"
  ELSE IF r.name # "FitbitAPIError" THEN "other"
  ELSE CASE r.tag = "no access token" -> "unauthenticated"
         [] r.tag = "token expired" -> "auth-expired"
         [] r.tag = "body" -> "provider"
         [] r.tag = "request failed" -> "unavailable"
         [] r.tag = "timed out" -> "timeout"

\* the status of the claim for an error of each kind, the final response of
\* the invocation having the status original
StatusOfKind(kind, original) ==
  CASE kind = "rate-limited" -> 429
    [] kind \in {"unauthenticated", "auth-expired"} -> 401
    [] kind = "provider" -> original
    [] kind = "unavailable" -> 503
    [] kind = "timeout" -> 504
    [] kind = "other" -> 500

\* every error of a settled invocation is answered with the status of its
\* kind
KindsMapped ==
  \A p \in Callers :
    (pc[p] = "done" /\ result[p].kind = "error") =>
      /\ reply[p].status =
           StatusOfKind(ErrorKind(result[p]),
                        IF Len(resp[p]) >= 1 THEN Last(p).status ELSE 0)
      /\ ErrorKind(result[p]) = "provider" =>
           /\ Len(resp[p]) >= 1
           /\ Last(p).failure = "none"
           /\ ~Ok(Last(p).status)
      /\ (reply[p].error = "internal_error") <=> (ErrorKind(result[p]) = "other")

\* C25 as stated: each kind of Gateway error is answered with its status,
\* and only an error that is not a Gateway error is answered with 500.
C25_OnlyOthersGive500 ==
  /\ KindsMapped
  /\ \A p \in Callers :
       (pc[p] = "done" /\ reply[p].status = 500) => ErrorKind(result[p]) = "other"

\* C25, amended: each kind of Gateway error is answered with its status
\* (rate-limited 429, unauthenticated and auth-expired 401, provider error
\* the provider's status, unavailable 503, timeout 504); an error that is
\* not a Gateway error is answered with 500 and the body internal_error, and
\* the only Gateway error answered with 500 is a provider error whose
\* original status is 500, with the body fitbit_api_error.
C25_StatusOfKind ==
  /\ KindsMapped
  /\ \A p \in Callers :
       (pc[p] = "done" /\ reply[p].status = 500) =>
         \/ ErrorKind(result[p]) = "other" /\ reply[p].error = "internal_error"
         \/ /\ ErrorKind(result[p]) = "provider"
            /\ Last(p).status = 500
            /\ reply[p].error = "fitbit_api_error"

C25_Witness ==
  \E p \in Callers :
    /\ pc[p] = "done"
    /\ Len(resp[p]) = 2
    /\ Last(p).status = 500
    /\ ErrorKind(result[p]) = "provider"
    /\ reply[p] = [status |-> 500, error |-> "fitbit_api_error"]

\* C26: the GET re-issued after a successful refresh carries the access
\* token the client holds when it is issued; that token was installed by a
\* token exchange, this invocation's or a concurrent one's, and it is not
\* the token sent with the GET that was answered 401.
C26_RetryCarriesFreshToken ==
  /\ [](\A p \in Callers :
         (pc[p] = "fetch" /\ gets[p] = 2) =>
           /\ Len(sent[p]) = 2
           /\ sent[p][2] >= FirstExchangeTok
           /\ sent[p][2] < nextTok
           /\ sent[p][2] # sent[p][1])
  /\ [][\A p \in Callers :
          (gets[p] = 1 /\ gets'[p] = 2) =>
            /\ Got(p, 1).status = UnauthorizedStatus
            /\ exchanged'[p] = "ok"
            /\ sent'[p] = Append(sent[p], accessToken')]_vars

\* the retry of an invocation carries the token a concurrent invocation's
\* exchange installed after its own
C26_Witness ==
  \E p \in Callers :
    /\ pc[p] = "fetch" /\ gets[p] = 2
    /\ Len(sent[p]) = 2
    /\ sent[p][1] < FirstExchangeTok
    /\ sent[p][2] = FirstExchangeTok + 1
    /\ saved[p] = "secret"
====
